---- MODULE Spec2Model ----
(***************************************************************************)
(* Model of the `moving_average` crate (src/src/lib.rs): the accumulator   *)
(* Moving<T> with its running mean, its frequency table for the mode, its  *)
(* count and its threshold.                                                *)
(*                                                                         *)
(* Numbers.  An f64 is modelled bit for bit: a sign, a 53-bit significand  *)
(* and an exponent, and the arithmetic of the code (+, -, /, >=, abs,      *)
(* `as i64`) rounds to nearest, ties to even, as IEEE 754 binary64 does.   *)
(*                                                                         *)
(* Kinds.  `signed` is T::signed().  The built-in unsigned kinds never     *)
(* hold a negative value; `Sign` is a public trait, so a caller's own kind *)
(* may answer signed() = false and still convert to a negative f64, which  *)
(* is the only way the sign validation of add_with_result can fail.        *)
(***************************************************************************)
EXTENDS Integers, Sequences, FiniteSets, TLC

VARIABLES
    signed,     \* T::signed() of the accumulator's kind T
    ctor,       \* the constructor that made `m`
    m,          \* the accumulator: [count, mean, mode, threshold]
    other,      \* a second accumulator of the same kind (for comparisons)
    last,       \* the last call on `m`: [op, arg, ret]
    sum,        \* history: sum of the values that passed sign validation
    accepted,   \* history: number of calls that passed sign validation
    reached     \* history: some call on `m` produced ThresholdReached

vars == <<signed, ctor, m, other, last, sum, accepted, reached>>

----------------------------------------------------------------------------
(* Bounds of the model *)

MaxCount == 5
MaxCmpCount == 2
MaxValue == 2
MaxThresholdHalves == 3

\* the values handed to add: one negative value, zero, and positives
Values == (-1)..MaxValue

----------------------------------------------------------------------------
(* Natural numbers of any size: little-endian sequences of limbs below     *)
(* Base, without leading zero limbs; <<>> is zero.  They carry the 53-bit  *)
(* significands of the f64 values and the exact intermediate results.      *)

Base == 2^15

Head0(a) == IF a = <<>> THEN 0 ELSE Head(a)

Tail0(a) == IF a = <<>> THEN <<>> ELSE Tail(a)

RECURSIVE BNorm(_)
BNorm(a) ==
    IF a # <<>> /\ a[Len(a)] = 0 THEN BNorm(SubSeq(a, 1, Len(a) - 1)) ELSE a

RECURSIVE BFromInt(_)
BFromInt(n) == IF n = 0 THEN <<>> ELSE <<n % Base>> \o BFromInt(n \div Base)

RECURSIVE BToInt(_)
BToInt(a) == IF a = <<>> THEN 0 ELSE Head(a) + Base * BToInt(Tail(a))

RECURSIVE BAddC(_, _, _)
BAddC(a, b, c) ==
    IF a = <<>> /\ b = <<>> THEN (IF c = 0 THEN <<>> ELSE <<c>>)
    ELSE LET x == Head0(a) + Head0(b) + c
         IN <<x % Base>> \o BAddC(Tail0(a), Tail0(b), x \div Base)

BAdd(a, b) == BAddC(a, b, 0)

RECURSIVE BSubC(_, _, _)
BSubC(a, b, c) ==
    IF a = <<>> THEN <<>>
    ELSE LET x == Head(a) - Head0(b) - c
         IN <<x % Base>> \o BSubC(Tail(a), Tail0(b), IF x < 0 THEN 1 ELSE 0)

\* a - b for a >= b
BSub(a, b) == BNorm(BSubC(a, b, 0))

RECURSIVE BCmpFrom(_, _, _)
BCmpFrom(a, b, i) ==
    IF i = 0 THEN 0
    ELSE IF a[i] < b[i] THEN -1
    ELSE IF a[i] > b[i] THEN 1
    ELSE BCmpFrom(a, b, i - 1)

\* -1, 0 or 1 as a < b, a = b or a > b
BCmp(a, b) ==
    IF Len(a) < Len(b) THEN -1
    ELSE IF Len(a) > Len(b) THEN 1
    ELSE BCmpFrom(a, b, Len(a))

RECURSIVE BMulC(_, _, _)
BMulC(a, k, c) ==
    IF a = <<>> THEN (IF c = 0 THEN <<>> ELSE <<c>>)
    ELSE LET x == Head(a) * k + c
         IN <<x % Base>> \o BMulC(Tail(a), k, x \div Base)

\* a * k for 0 < k <= Base
BMulSmall(a, k) == BMulC(a, k, 0)

\* quotient and remainder of a by k, for 0 < k <= Base
RECURSIVE BDivRem(_, _)
BDivRem(a, k) ==
    IF a = <<>> THEN [q |-> <<>>, r |-> 0]
    ELSE LET hi == BDivRem(Tail(a), k)
             x == hi.r * Base + Head(a)
         IN [q |-> <<x \div k>> \o hi.q, r |-> x % k]

BDivSmall(a, k) == BNorm(BDivRem(a, k).q)

RECURSIVE Zeros(_)
Zeros(n) == IF n = 0 THEN <<>> ELSE <<0>> \o Zeros(n - 1)

\* a * 2^n
BShl(a, n) ==
    IF a = <<>> THEN <<>>
    ELSE Zeros(n \div 15) \o BMulSmall(a, 2^(n % 15))

\* a with its n lowest limbs dropped
DropLimbs(a, n) == IF n >= Len(a) THEN <<>> ELSE SubSeq(a, n + 1, Len(a))

\* floor(a / 2^n)
BShr(a, n) == BDivSmall(DropLimbs(a, n \div 15), 2^(n % 15))

\* a mod 2^n = 0
LowBitsZero(a, n) == BShl(BShr(a, n), n) = a

BOdd(a) == Head0(a) % 2 = 1

RECURSIVE IntBitLen(_)
IntBitLen(n) == IF n = 0 THEN 0 ELSE 1 + IntBitLen(n \div 2)

\* the number of bits of a
BBitLen(a) == IF a = <<>> THEN 0 ELSE 15 * (Len(a) - 1) + IntBitLen(a[Len(a)])

----------------------------------------------------------------------------
(* f64: IEEE 754 binary64 with round-to-nearest, ties-to-even.  A finite   *)
(* value is [neg, man, exp], standing for (-1)^neg * man * 2^exp with man  *)
(* a 53-bit significand; zero is [FALSE, <<>>, 0].  Subnormals, infinities,*)
(* NaN and -0.0 do not arise from the values the model feeds in.           *)

MANTISSA_DIGITS == 53

Abs(x) == IF x < 0 THEN 0 - x ELSE x

Zero == [neg |-> FALSE, man |-> <<>>, exp |-> 0]

\* f64::MAX = (2^53 - 1) * 2^971
F64_MAX == [neg |-> FALSE, man |-> <<32767, 32767, 32767, 255>>, exp |-> 971]

\* the f64 nearest to (man + f) * 2^exp, where 0 <= f < 1 and f # 0 iff sticky;
\* man has at least 55 bits whenever sticky holds
Round(neg, man, exp, sticky) ==
    LET len == BBitLen(man) IN
    IF len = 0 THEN Zero
    ELSE IF len <= MANTISSA_DIGITS
    THEN [neg |-> neg, man |-> BShl(man, MANTISSA_DIGITS - len),
          exp |-> exp - (MANTISSA_DIGITS - len)]
    ELSE LET d == len - MANTISSA_DIGITS
             q == BShr(man, d)
             half == BOdd(BShr(man, d - 1))
             rest == sticky \/ ~LowBitsZero(man, d - 1)
             up == half /\ (rest \/ BOdd(q))
             r == IF up THEN BAdd(q, <<1>>) ELSE q
         IN IF BBitLen(r) > MANTISSA_DIGITS
            THEN [neg |-> neg, man |-> BShr(r, 1), exp |-> exp + d + 1]
            ELSE [neg |-> neg, man |-> r, exp |-> exp + d]

\* an integer of the value kind as f64: value.to_f64().unwrap(), `*other as f64`
ToF64(v) == Round(v < 0, BFromInt(Abs(v)), 0, FALSE)

\* `*count as f64`
UsizeAsF64(n) == Round(FALSE, BFromInt(n), 0, FALSE)

F64Neg(a) == IF a.man = <<>> THEN a ELSE [a EXCEPT !.neg = ~a.neg]

F64Abs(a) == [a EXCEPT !.neg = FALSE]

\* a + b
F64Add(a, b) ==
    IF a.man = <<>> THEN b
    ELSE IF b.man = <<>> THEN a
    ELSE LET e == IF a.exp < b.exp THEN a.exp ELSE b.exp
             x == BShl(a.man, a.exp - e)
             y == BShl(b.man, b.exp - e)
             c == BCmp(x, y)
         IN IF a.neg = b.neg THEN Round(a.neg, BAdd(x, y), e, FALSE)
            ELSE IF c = 0 THEN Zero
            ELSE IF c > 0 THEN Round(a.neg, BSub(x, y), e, FALSE)
            ELSE Round(b.neg, BSub(y, x), e, FALSE)

\* a - b
F64Sub(a, b) == F64Add(a, F64Neg(b))

\* the number of times 2 divides n, for n > 0
RECURSIVE IntTrailingZeros(_)
IntTrailingZeros(n) == IF n % 2 = 1 THEN 0 ELSE 1 + IntTrailingZeros(n \div 2)

\* the number of times 2 divides a, for a # <<>>
RECURSIVE BTrailingZeros(_)
BTrailingZeros(a) ==
    IF Head(a) = 0 THEN 15 + BTrailingZeros(Tail(a)) ELSE IntTrailingZeros(Head(a))

\* a / b, for a divisor b > 0 whose significand has an odd part below Base
\* (every count below Base converted to f64)
F64Div(a, b) ==
    IF a.man = <<>> THEN Zero
    ELSE LET pow == BTrailingZeros(b.man)
             k == BToInt(BShr(b.man, pow))
             qr == BDivRem(BShl(a.man, 17), k)
         IN Round(a.neg # b.neg, BNorm(qr.q), a.exp - 17 - b.exp - pow, qr.r # 0)

\* a < b
F64Lt(a, b) ==
    LET mag == IF a.man = <<>> THEN (IF b.man = <<>> THEN 0 ELSE -1)
               ELSE IF b.man = <<>> THEN 1
               ELSE IF a.exp < b.exp THEN -1
               ELSE IF a.exp > b.exp THEN 1
               ELSE BCmp(a.man, b.man)
    IN IF a.neg /\ ~b.neg THEN TRUE
       ELSE IF ~a.neg /\ b.neg THEN FALSE
       ELSE IF a.neg THEN mag > 0
       ELSE mag < 0

\* a == b
F64Eq(a, b) == a = b

\* a >= b
F64Ge(a, b) == ~F64Lt(a, b)

\* `x as i64`: truncation toward zero
AsI64(a) ==
    IF a.man = <<>> THEN 0
    ELSE LET n == IF a.exp < 0 THEN BToInt(BShr(a.man, 0 - a.exp))
                  ELSE BToInt(BShl(a.man, a.exp))
         IN IF a.neg THEN 0 - n ELSE n

\* f64::partial_cmp (no NaN arises from the modelled values)
PartialCmp(a, b) ==
    IF F64Lt(a, b) THEN "Less" ELSE IF F64Eq(a, b) THEN "Equal" ELSE "Greater"

----------------------------------------------------------------------------
(* Constructors *)

New == [count |-> 0, mean |-> Zero, mode |-> <<>>, threshold |-> F64_MAX]

NewWithThreshold(threshold) ==
    [count |-> 0, mean |-> Zero, mode |-> <<>>, threshold |-> threshold]

\* #[derive(Default)]: every field takes its type's default, f64 is 0.0
Default == [count |-> 0, mean |-> Zero, mode |-> <<>>, threshold |-> Zero]

\* the thresholds handed to new_with_threshold: 1.0, 1.5, ...
Thresholds == {F64Div(ToF64(k), ToF64(2)) : k \in 2..MaxThresholdHalves}

----------------------------------------------------------------------------
(* add_with_result, step by step *)

\* mutant of SignCheckFails: the negation of T::signed() left out
SignCheckUnnegated(isSigned, value_f64) == isSigned /\ F64Lt(value_f64, Zero)

\* `!T::signed() && value_f64 < 0.0`
SignCheckFails(isSigned, value_f64) == ~isSigned /\ F64Lt(value_f64, Zero)

\* mutant of EntryBump: a new key enters the table with the frequency 0
EntryBumpInsertZero(mode, key) ==
    IF key \in DOMAIN mode
    THEN [mode EXCEPT ![key] = @ + 1]
    ELSE [k \in DOMAIN mode \cup {key} |-> IF k = key THEN 0 ELSE mode[k]]

\* mode.entry(key).and_modify(|e| *e += 1).or_insert(1)
EntryBump(mode, key) ==
    IF key \in DOMAIN mode
    THEN [mode EXCEPT ![key] = @ + 1]
    ELSE [k \in DOMAIN mode \cup {key} |-> IF k = key THEN 1 ELSE mode[k]]

\* mutant of UpdateMean: the old mean is not subtracted from the value
UpdateMeanNoSubtract(mean, value_f64, count) ==
    F64Add(mean, F64Div(value_f64, UsizeAsF64(count)))

\* `*mean += (value_f64 - *mean) / *count as f64`, count already incremented
UpdateMean(mean, value_f64, count) ==
    F64Add(mean, F64Div(F64Sub(value_f64, mean), UsizeAsF64(count)))

\* mutant of ThresholdHit: `>` for `>=`
ThresholdHitStrict(mean, threshold) == F64Lt(threshold, mean)

\* `*mean >= self.threshold`
ThresholdHit(mean, threshold) == F64Ge(mean, threshold)

\* the accumulator after the value is committed
Commit(self, value_f64) ==
    LET count == self.count + 1 IN
    [self EXCEPT !.mode = EntryBump(self.mode, value_f64),
                 !.count = count,
                 !.mean = UpdateMean(self.mean, value_f64, count)]

\* add_with_result: the accumulator it leaves and the Result it returns
AddWithResult(self, isSigned, value) ==
    LET value_f64 == ToF64(value) IN
    IF SignCheckFails(isSigned, value_f64)
    THEN [self |-> self,
          ret |-> [kind |-> "NegativeValueToUnsignedType", val |-> Zero]]
    ELSE LET next == Commit(self, value_f64) IN
         IF ThresholdHit(next.mean, next.threshold)
         THEN [self |-> next, ret |-> [kind |-> "ThresholdReached", val |-> Zero]]
         ELSE [self |-> next, ret |-> [kind |-> "Ok", val |-> next.mean]]

----------------------------------------------------------------------------
(* Accessors *)

Mean(self) == self.mean

Count(self) == self.count

----------------------------------------------------------------------------
(* mode() *)

RECURSIVE Perms(_)
Perms(S) ==
    IF S = {} THEN {<<>>}
    ELSE UNION {{<<x>> \o p : p \in Perms(S \ {x})} : x \in S}

\* the orders in which HashMap::iter may yield the keys of the table
IterOrders(mode) == Perms(DOMAIN mode)

\* mutant of MaxFrequency: min() for max()
MinFrequency(mode) ==
    CHOOSE c \in {mode[k] : k \in DOMAIN mode} : \A k \in DOMAIN mode : mode[k] >= c

\* mode_map.values().max()
MaxFrequency(mode) ==
    CHOOSE c \in {mode[k] : k \in DOMAIN mode} : \A k \in DOMAIN mode : mode[k] <= c

\* the key min_by_key orders the tied modes by
DistanceKey(value, mean) == AsI64(F64Abs(F64Sub(value, mean)))

\* Iterator::min_by_key: the first of the elements with the least key
MinByKey(modes, mean) ==
    LET key == [i \in 1..Len(modes) |-> DistanceKey(modes[i], mean)]
        first == CHOOSE i \in 1..Len(modes) :
                     /\ \A j \in 1..Len(modes) : key[i] <= key[j]
                     /\ \A j \in 1..(i - 1) : key[j] > key[i]
    IN modes[first]

\* mode(), with the table iterated in the order `order`
Mode(self, order) ==
    IF DOMAIN self.mode = {} THEN Zero
    ELSE LET max == MaxFrequency(self.mode) IN
         IF ~(max > 1) THEN Mean(self)
         ELSE LET modes == SelectSeq(order, LAMBDA k : self.mode[k] = max) IN
              IF Len(modes) # 1 THEN MinByKey(modes, Mean(self)) ELSE modes[1]

\* every value mode() can return in this state
ModeResults(self) == {Mode(self, order) : order \in IterOrders(self.mode)}

----------------------------------------------------------------------------
(* Comparison operators *)

\* impl PartialEq for Moving<T>
MovingEq(a, b) == F64Eq(a.mean, b.mean)

\* impl PartialOrd for Moving<T>
MovingPartialCmp(a, b) == PartialCmp(a.mean, b.mean)

\* impl PartialEq<$ty> for Moving<$ty>
MovingEqRaw(a, x) == F64Eq(Mean(a), ToF64(x))

\* impl PartialOrd<$ty> for Moving<$ty>
MovingPartialCmpRaw(a, x) == PartialCmp(Mean(a), ToF64(x))

\* impl PartialEq<Moving<$ty>> for $ty
RawEqMoving(x, a) == F64Eq(ToF64(x), Mean(a))

\* mutant of RawPartialCmpMoving: the operands in the order of the other impl
RawPartialCmpMovingSwapped(x, a) == PartialCmp(Mean(a), ToF64(x))

\* impl PartialOrd<Moving<$ty>> for $ty
RawPartialCmpMoving(x, a) == PartialCmp(ToF64(x), Mean(a))

----------------------------------------------------------------------------
(* The state machine *)

NoRet == [kind |-> "None", val |-> Zero]

Unit == [kind |-> "Unit", val |-> Zero]

Init ==
    /\ signed \in BOOLEAN
    /\ \/ ctor = "new" /\ m = New
       \/ ctor = "default" /\ m = Default
       \/ ctor = "new_with_threshold" /\ \E t \in Thresholds : m = NewWithThreshold(t)
    /\ other = New
    /\ last = [op |-> "new", arg |-> 0, ret |-> NoRet]
    /\ sum = 0
    /\ accepted = 0
    /\ reached = FALSE

\* the effect of one add_with_result(value) on `m` and on the history
Ingest(value, op, discard) ==
    /\ \E r \in {AddWithResult(m, signed, value)} :
        LET passed == r.ret.kind # "NegativeValueToUnsignedType" IN
        /\ m' = r.self
        /\ last' = [op |-> op, arg |-> value, ret |-> IF discard THEN Unit ELSE r.ret]
        /\ sum' = IF passed THEN sum + value ELSE sum
        /\ accepted' = IF passed THEN accepted + 1 ELSE accepted
        /\ reached' = (reached \/ r.ret.kind = "ThresholdReached")
    /\ UNCHANGED <<signed, ctor, other>>

\* m.add_with_result(value)
AddWithResultCall(value) ==
    /\ m.count < MaxCount
    /\ Ingest(value, "add_with_result", FALSE)

\* m.add(value): `let _ = self.add_with_result(value)`
Add(value) ==
    /\ m.count < MaxCount
    /\ Ingest(value, "add", TRUE)

\* m += value: `let _ = self.add(other)`
AddAssign(value) ==
    /\ m.count < MaxCount
    /\ Ingest(value, "add_assign", TRUE)

\* m.mode(), the table iterated in some order
ModeCall ==
    /\ \E result \in ModeResults(m) :
           last' = [op |-> "mode", arg |-> 0, ret |-> [kind |-> "Value", val |-> result]]
    /\ UNCHANGED <<signed, ctor, m, other, sum, accepted, reached>>

Next ==
    \/ \E value \in Values : AddWithResultCall(value)
    \/ \E value \in Values : Add(value)
    \/ \E value \in Values : AddAssign(value)
    \/ ModeCall

Spec == Init /\ [][Next]_vars

----------------------------------------------------------------------------
(* Two accumulators of one kind, for the comparison operators *)

InitCmp == Init /\ ctor = "new"

CmpAddSelf(value) == m.count < MaxCmpCount /\ Add(value)

\* other.add(value)
CmpAddOther(value) ==
    /\ other.count < MaxCmpCount
    /\ other' = AddWithResult(other, signed, value).self
    /\ UNCHANGED <<signed, ctor, m, last, sum, accepted, reached>>

NextCmp ==
    \/ \E value \in Values : CmpAddSelf(value)
    \/ \E value \in Values : CmpAddOther(value)

SpecCmp == InitCmp /\ [][NextCmp]_vars

----------------------------------------------------------------------------
(* Exact comparison of f64 values and integers, used to state the claims   *)
(* without the f64 operations under test                                   *)

Max2(x, y) == IF x > y THEN x ELSE y

\* |a| * 2^p as a natural number, for p >= -a.exp
Scaled(a, p) == BShl(a.man, a.exp + p)

\* the order of (-1)^aNeg * x and (-1)^bNeg * y: -1, 0 or 1
SignedCmp(aNeg, x, bNeg, y) ==
    LET an == aNeg /\ x # <<>>
        bn == bNeg /\ y # <<>>
    IN IF an /\ ~bn THEN -1
       ELSE IF ~an /\ bn THEN 1
       ELSE IF an THEN BCmp(y, x)
       ELSE BCmp(x, y)

\* |(-1)^aNeg * x - (-1)^bNeg * y|
SignedDist(aNeg, x, bNeg, y) ==
    IF aNeg # bNeg THEN BAdd(x, y)
    ELSE IF BCmp(x, y) >= 0 THEN BSub(x, y) ELSE BSub(y, x)

\* the order of the values of two f64
ExactCmp(a, b) ==
    LET p == Max2(0, Max2(0 - a.exp, 0 - b.exp))
    IN SignedCmp(a.neg, Scaled(a, p), b.neg, Scaled(b, p))

\* the order of the value of an f64 and an integer
ExactCmpInt(a, x) ==
    LET p == Max2(0, 0 - a.exp)
    IN SignedCmp(a.neg, Scaled(a, p), x < 0, BShl(BFromInt(Abs(x)), p))

\* |mean - s / n| <= 2^-48, for n > 0
WithinTolerance(mean, s, n) ==
    LET p == Max2(48, 0 - mean.exp)
        d == SignedDist(mean.neg, BMulSmall(Scaled(mean, p), n),
                        s < 0, BShl(BFromInt(Abs(s)), p))
    IN BCmp(d, BShl(BFromInt(n), p - 48)) <= 0

\* the order of |a - mean| and |b - mean|
DistCmp(a, b, mean) ==
    LET p == Max2(0, Max2(0 - mean.exp, Max2(0 - a.exp, 0 - b.exp)))
        da == SignedDist(a.neg, Scaled(a, p), mean.neg, Scaled(mean, p))
        db == SignedDist(b.neg, Scaled(b, p), mean.neg, Scaled(mean, p))
    IN BCmp(da, db)

\* the values holding the greatest frequency of the table
TiedModes(self) ==
    {k \in DOMAIN self.mode : \A j \in DOMAIN self.mode : self.mode[j] <= self.mode[k]}

RECURSIVE SumOver(_, _)
SumOver(f, S) ==
    IF S = {} THEN 0
    ELSE LET k == CHOOSE k \in S : TRUE IN f[k] + SumOver(f, S \ {k})

AddOps == {"add_with_result", "add", "add_assign"}

Freq(mode, key) == IF key \in DOMAIN mode THEN mode[key] ELSE 0

----------------------------------------------------------------------------
(* Claims *)

\* C1: after the values v1..vn were added to a fresh accumulator, mean() is
\* (v1 + ... + vn) / n up to the rounding of the f64 operations (at most
\* 2^-48 away), for every n >= 1.
C1_MeanIsArithmeticMean ==
    accepted >= 1 => WithinTolerance(Mean(m), sum, accepted)

\* three values were added and the running mean is not the f64 nearest to
\* sum / n: the rounding of the recurrence shows
C1_Witness ==
    /\ accepted >= 3
    /\ last.op = "add"
    /\ Mean(m) # F64Div(ToF64(sum), UsizeAsF64(accepted))

\* C2: add_with_result(v), for a v that is taken in, returns ThresholdReached
\* exactly when the mean including v is >= threshold and Ok(that mean)
\* otherwise; either way v is committed: count grows by one, the mean is the
\* mean of the values including v, and the frequency of v grows by one.
C2_ThresholdSignalsAfterCommit ==
    [][(last'.op = "add_with_result"
            /\ last'.ret.kind # "NegativeValueToUnsignedType")
        => /\ last'.ret.kind \in {"Ok", "ThresholdReached"}
           /\ (last'.ret.kind = "ThresholdReached")
                  <=> (ExactCmp(m'.mean, m.threshold) >= 0)
           /\ last'.ret.kind = "Ok" => last'.ret.val = m'.mean
           /\ m'.threshold = m.threshold
           /\ m'.count = m.count + 1
           /\ WithinTolerance(m'.mean, sum + last'.arg, accepted + 1)
           /\ DOMAIN m'.mode = DOMAIN m.mode \cup {ToF64(last'.arg)}
           /\ \A k \in DOMAIN m'.mode :
                  m'.mode[k] = Freq(m.mode, k) + (IF k = ToF64(last'.arg) THEN 1 ELSE 0)
      ]_vars

\* add_with_result returned ThresholdReached on an accumulator made by
\* new_with_threshold, and the value that crossed the threshold is in it
C2_Witness ==
    /\ ctor = "new_with_threshold"
    /\ last.op = "add_with_result"
    /\ last.ret.kind = "ThresholdReached"
    /\ m.count >= 2
    /\ Freq(m.mode, ToF64(last.arg)) >= 1

\* C3: an accumulator made by new() or by Default::default() has its
\* threshold disabled (f64::MAX): add_with_result on it never returns
\* ThresholdReached, every mean of the model being below f64::MAX.
C3_NoThresholdUnlessConfigured ==
    (ctor \in {"new", "default"} /\ last.op = "add_with_result")
        => last.ret.kind # "ThresholdReached"

\* C4: when two or more values tie for the greatest frequency (> 1), mode()
\* returns a tied value whose distance to the mean is the least among the
\* tied values.
C4_TieGoesToClosest ==
    (last.op = "mode" /\ Cardinality(TiedModes(m)) >= 2
        /\ \E k \in DOMAIN m.mode : m.mode[k] > 1)
        => /\ last.ret.val \in TiedModes(m)
           /\ \A k \in TiedModes(m) : DistCmp(last.ret.val, k, Mean(m)) <= 0

\* C5: mode() is 0.0 when nothing was added, the mean when every value was
\* added once, and x when x alone holds the greatest frequency and that
\* frequency is at least 2.
C5_ModeCases ==
    last.op = "mode"
        => /\ accepted = 0 => last.ret.val = Zero
           /\ (accepted >= 1 /\ \A k \in DOMAIN m.mode : m.mode[k] = 1)
                  => last.ret.val = Mean(m)
           /\ \A x \in DOMAIN m.mode :
                  (m.mode[x] >= 2 /\ \A y \in DOMAIN m.mode \ {x} : m.mode[y] < m.mode[x])
                      => last.ret.val = x

\* mode() returned the one most frequent of several values, which is not the mean
C5_Witness ==
    /\ last.op = "mode"
    /\ Cardinality(DOMAIN m.mode) >= 2
    /\ \E x \in DOMAIN m.mode :
           /\ m.mode[x] >= 2
           /\ \A y \in DOMAIN m.mode \ {x} : m.mode[y] < m.mode[x]
           /\ last.ret.val = x
           /\ x # Mean(m)

\* C6: on an accumulator made by new_with_threshold, once an add has produced
\* ThresholdReached no further value is added: count, mean and the table stay.
C6_NothingAddedAfterThreshold ==
    [][(ctor = "new_with_threshold" /\ reached) => m' = m]_vars

\* C7: once add_with_result has returned ThresholdReached, every later
\* add_with_result that takes its value in returns ThresholdReached too.
C7_ThresholdIsTerminal ==
    (reached /\ last.op = "add_with_result"
        /\ last.ret.kind # "NegativeValueToUnsignedType")
        => last.ret.kind = "ThresholdReached"

\* C8: count() is the number of add / add_with_result / += calls that did not
\* fail sign validation; it never decreases; and a call whose value fails sign
\* validation (a negative value, a kind that is not signed) leaves count, mean
\* and the table as they were and reports NegativeValueToUnsignedType.
C8_CountCountsAcceptedCalls ==
    [][/\ Count(m') = accepted'
       /\ Count(m') >= Count(m)
       /\ (last'.op \in AddOps /\ ~signed /\ last'.arg < 0)
              => /\ m' = m
                 /\ accepted' = accepted
                 /\ last'.op = "add_with_result"
                        => last'.ret.kind = "NegativeValueToUnsignedType"
       /\ (last'.op \in AddOps /\ (signed \/ last'.arg >= 0))
              => accepted' = accepted + 1
      ]_vars

\* a negative value was refused by an accumulator that already holds values
C8_Witness ==
    /\ ~signed
    /\ last.op = "add_with_result"
    /\ last.arg < 0
    /\ last.ret.kind = "NegativeValueToUnsignedType"
    /\ Count(m) >= 2
    /\ Count(m) = accepted

\* C9: the comparison operators look at the means only: two accumulators
\* compare as their means do, an accumulator and a raw value compare as the
\* mean and the value do, in either direction, whatever the counts and tables.
C9_ComparisonsByMean ==
    /\ MovingEq(m, other) <=> (ExactCmp(m.mean, other.mean) = 0)
    /\ (MovingPartialCmp(m, other) = "Less") <=> (ExactCmp(m.mean, other.mean) < 0)
    /\ (MovingPartialCmp(m, other) = "Greater") <=> (ExactCmp(m.mean, other.mean) > 0)
    /\ \A x \in Values :
           /\ MovingEqRaw(m, x) <=> (ExactCmpInt(m.mean, x) = 0)
           /\ (MovingPartialCmpRaw(m, x) = "Less") <=> (ExactCmpInt(m.mean, x) < 0)
           /\ (MovingPartialCmpRaw(m, x) = "Greater") <=> (ExactCmpInt(m.mean, x) > 0)
           /\ RawEqMoving(x, m) <=> (ExactCmpInt(m.mean, x) = 0)
           /\ (RawPartialCmpMoving(x, m) = "Less") <=> (ExactCmpInt(m.mean, x) > 0)
           /\ (RawPartialCmpMoving(x, m) = "Greater") <=> (ExactCmpInt(m.mean, x) < 0)

\* two accumulators with different counts and tables and the same mean are
\* equal, equal to the raw value 1, and below the raw value 2 from both sides
C9_Witness ==
    /\ Count(m) # Count(other)
    /\ DOMAIN m.mode # DOMAIN other.mode
    /\ Count(m) >= 1 /\ Count(other) >= 1
    /\ MovingEq(m, other)
    /\ MovingEqRaw(m, 1) /\ RawEqMoving(1, other)
    /\ MovingPartialCmpRaw(m, 2) = "Less"
    /\ RawPartialCmpMoving(2, m) = "Greater"

\* C10: whatever the outcome of the calls so far, the frequencies of the
\* table add up to count and every entry of the table is at least 1.
C10_FrequenciesSumToCount ==
    /\ SumOver(m.mode, DOMAIN m.mode) = Count(m)
    /\ \A k \in DOMAIN m.mode : m.mode[k] >= 1

\* a refused call on an accumulator that holds a value twice and another once
C10_Witness ==
    /\ last.ret.kind = "NegativeValueToUnsignedType"
    /\ Count(m) >= 3
    /\ Cardinality(DOMAIN m.mode) >= 2
    /\ \E k \in DOMAIN m.mode : m.mode[k] >= 2

====
